---------------------------- MODULE Spec2Model ----------------------------
(***************************************************************************)
(* Model of src/src/09-functions-n-closures-tasks.js: the closure          *)
(* factories getComposition, getPolynom, memoize, retry, logger,           *)
(* partialUsingArguments and getIdGeneratorFunction.  Every factory owns   *)
(* its private state; each component has its own specification over the    *)
(* shared variables.                                                       *)
(*                                                                         *)
(* A call of a closure is one action: the whole body of the JavaScript     *)
(* function runs in one step.  What the user-supplied function does when   *)
(* it is invoked (return a value, throw) is an input of the action.        *)
(***************************************************************************)
EXTENDS Integers, Sequences, FiniteSets, TLC

VARIABLES
    cache,      \* memoize: wrapper -> the Map `cache` of that closure
    mCalls,     \* memoize: history of the calls of the wrappers (observer)
    gens,       \* getIdGeneratorFunction: generator -> closure variables
    gReturned,  \* getIdGeneratorFunction: generator -> values returned so far
    rLast,      \* retry: the last call retry(func, attempts) and how it ended
    partial,    \* partialUsingArguments: the arguments bound at creation
    pLast,      \* partialUsingArguments: the last call of the closure f
    lLast,      \* logger: the last call of the closure wrapper and its events
    polynom,    \* getPolynom: what the last call of getPolynom returned
    yLast,      \* getPolynom: the last call of the returned function f
    cLast       \* getComposition: the last call of the closure foo

vars == <<cache, mCalls, gens, gReturned, rLast, partial, pLast, lLast,
          polynom, yLast, cLast>>

(***************************************************************************)
(* Bounds of the model.                                                    *)
(***************************************************************************)
MaxKey == 1         \* memoize: arguments are 0..MaxKey
MaxVal == 1         \* values returned by a user function are 0..MaxVal
MaxMemoCalls == 3   \* memoize: number of wrapper calls explored
MaxStart == 2       \* getIdGeneratorFunction: startFrom is -1..MaxStart
MaxGenCalls == 3    \* getIdGeneratorFunction: calls explored per generator
MaxFuncCalls == 4   \* retry: invocations for which func's behaviour is chosen
MaxAttempts == 4    \* retry: attempts is 0..MaxAttempts
MaxPartialArgs == 2 \* partialUsingArguments: bound / call-time arguments each
MaxLogArgs == 3     \* logger: number of arguments of a wrapper call
MaxCoefs == 4       \* getPolynom: number of coefficients passed
MaxCoef == 2        \* getPolynom: coefficients and x are -MaxCoef..MaxCoef

Keys == 0..MaxKey
Values == 0..MaxVal
Wrappers == {"m1", "m2"}
Gens == {"g1", "g2"}
StartFroms == -1..MaxStart

(***************************************************************************)
(* What one invocation of a user-supplied function does: it returns the   *)
(* value v (ok) or throws the error v (~ok).                               *)
(***************************************************************************)
Returns(v) == [ok |-> TRUE, v |-> v]
Throws(e) == [ok |-> FALSE, v |-> e]
FuncOutcomes == {Returns(v) : v \in Values} \cup {Throws(0)}

(***************************************************************************)
(* JavaScript values and their conversions                                 *)
(***************************************************************************)
\* A value is a record of its type and its payload (n of a number or an
\* error, s of a string, a of an array; the other fields are unused).
\* A number, the number NaN, a string, an array, undefined, the function
\* object func, the error thrown by a user function, and the TypeError the
\* engine throws for a property read of undefined or a call of a
\* non-function.
JsVal(type, n, s, a) == [type |-> type, n |-> n, s |-> s, a |-> a]
Num(n) == JsVal("number", n, "", << >>)
NaN == JsVal("NaN", 0, "", << >>)
Str(s) == JsVal("string", 0, s, << >>)
Arr(a) == JsVal("array", 0, "", a)
Undefined == JsVal("undefined", 0, "", << >>)
FuncRef == JsVal("function", 0, "", << >>)
Err(i) == JsVal("error", i, "", << >>)
TypeError == JsVal("TypeError", 0, "", << >>)

\* String(val), as template literals and Array.prototype.join apply it.
\* An array is joined with ","; join renders undefined as "".
RECURSIVE ToStr(_), Join(_, _)
ToStr(val) ==
    CASE val.type = "number" -> ToString(val.n)
      [] val.type = "NaN" -> "NaN"
      [] val.type = "string" -> val.s
      [] val.type = "array" -> Join(val.a, ",")
      [] val.type = "undefined" -> "undefined"

\* a.join(sep)
Join(a, sep) ==
    IF Len(a) = 0 THEN ""
    ELSE LET el(i) == IF a[i].type = "undefined" THEN "" ELSE ToStr(a[i])
         IN IF Len(a) = 1 THEN el(1)
            ELSE el(1) \o sep \o Join(Tail(a), sep)

\* The number a string converts to: "" is 0, a decimal numeral is its
\* value, any other text is NaN.
StrToNum(s) ==
    IF s = "" THEN Num(0)
    ELSE IF \E n \in -9..9 : ToString(n) = s
         THEN Num(CHOOSE n \in -9..9 : ToString(n) = s)
         ELSE NaN

\* The unary plus +val.
ToNumber(val) ==
    CASE val.type = "number" -> val
      [] val.type = "NaN" -> val
      [] val.type = "string" -> StrToNum(val.s)
      [] val.type = "array" -> StrToNum(ToStr(val))
      [] val.type = "undefined" -> NaN

\* The sequences over S of length at most n.
SeqsUpTo(S, n) == UNION {[1..k -> S] : k \in 0..n}

(***************************************************************************)
(* memoize(func)                                                           *)
(***************************************************************************)
\* const cache = new Map();
NewMap == << >>

\* cache.set(x, res)
MapSet(c, x, res) == [k \in DOMAIN c \cup {x} |-> IF k = x THEN res ELSE c[k]]

\* A slip that forgets cache.set(x, res).
fooNoSet(c, x, r) ==
    IF x \in DOMAIN c
    THEN [cache |-> c, outcome |-> "return", value |-> c[x], invoked |-> FALSE]
    ELSE IF r.ok
         THEN [cache |-> c, outcome |-> "return", value |-> r.v,
               invoked |-> TRUE]
         ELSE [cache |-> c, outcome |-> "throw", value |-> r.v,
               invoked |-> TRUE]

\* A slip that records an entry for x also when func throws.
fooSetOnThrow(c, x, r) ==
    IF x \in DOMAIN c
    THEN [cache |-> c, outcome |-> "return", value |-> c[x], invoked |-> FALSE]
    ELSE IF r.ok
         THEN [cache |-> MapSet(c, x, r.v), outcome |-> "return",
               value |-> r.v, invoked |-> TRUE]
         ELSE [cache |-> MapSet(c, x, 0), outcome |-> "throw", value |-> r.v,
               invoked |-> TRUE]

\* The closure foo(x) of memoize: c is its cache, r what func(x) does if it
\* is invoked.  Yields the cache afterwards, how the call ends (return or
\* throw), the value returned or thrown, and whether func was invoked.
foo(c, x, r) ==
    IF x \in DOMAIN c
    THEN [cache |-> c, outcome |-> "return", value |-> c[x], invoked |-> FALSE]
    ELSE IF r.ok
         THEN [cache |-> MapSet(c, x, r.v), outcome |-> "return",
               value |-> r.v, invoked |-> TRUE]
         ELSE [cache |-> c, outcome |-> "throw", value |-> r.v,
               invoked |-> TRUE]

\* A slip that keeps cache outside memoize, one Map shared by all wrappers.
MemoStoreShared(w, res) == [v \in Wrappers |-> res.cache]

\* The Map written by a call of wrapper w: the cache of its own closure,
\* made by new Map() in the call of memoize that returned w.
MemoStore(w, res) == [cache EXCEPT ![w] = res.cache]

\* The log entry of a call that did not invoke func.
NotInvoked == [ok |-> FALSE, v |-> -1]

\* One call w(x) of the wrapper w.  The log keeps what func did (fr) when
\* the call invoked it.
MemoCall(w, x, r) ==
    /\ Len(mCalls) < MaxMemoCalls
    /\ LET res == foo(cache[w], x, r)
       IN /\ cache' = MemoStore(w, res)
          /\ mCalls' = Append(mCalls, [w |-> w, x |-> x, outcome |-> res.outcome,
                                       value |-> res.value,
                                       invoked |-> res.invoked,
                                       fr |-> IF res.invoked THEN r
                                              ELSE NotInvoked])
    /\ UNCHANGED <<gens, gReturned, rLast, partial, pLast, lLast, polynom, yLast,
                 cLast>>

(***************************************************************************)
(* getIdGeneratorFunction(startFrom)                                       *)
(***************************************************************************)
\* A generator that has not been created yet.
NoGen == [created |-> FALSE, startFrom |-> 0, count |-> 0, flag |-> FALSE]

\* let count = 0; let flag;   (flag is undefined, which `if (flag)` takes
\* as false: the model writes FALSE for it)
getIdGeneratorFunction(startFrom) ==
    [created |-> TRUE, startFrom |-> startFrom, count |-> 0, flag |-> FALSE]

\* A slip that increments on the first call too.
idWrapperNoFlag(g) ==
    LET count == 1 + g.count
    IN [gen |-> [g EXCEPT !.count = count, !.flag = TRUE],
        ret |-> g.startFrom + count]

\* The closure wrapper() of getIdGeneratorFunction: g holds its variables.
idWrapper(g) ==
    LET count == IF g.flag THEN 1 + g.count ELSE g.count
    IN [gen |-> [g EXCEPT !.count = count, !.flag = TRUE],
        ret |-> g.startFrom + count]

\* A slip that keeps count and flag outside the closure, shared by all
\* generators: a call writes them into every generator.
IdStoreShared(id, r) ==
    [h \in Gens |-> IF gens[h].created
                    THEN [gens[h] EXCEPT !.count = r.gen.count,
                                         !.flag = r.gen.flag]
                    ELSE gens[h]]

\* The variables written by a call of generator id: its own.
IdStore(id, r) == [gens EXCEPT ![id] = r.gen]

IdCreate(id, startFrom) ==
    /\ ~gens[id].created
    /\ gens' = [gens EXCEPT ![id] = getIdGeneratorFunction(startFrom)]
    /\ UNCHANGED <<cache, mCalls, gReturned, rLast, partial, pLast, lLast, polynom, yLast,
                 cLast>>

IdCall(id) ==
    /\ gens[id].created
    /\ Len(gReturned[id]) < MaxGenCalls
    /\ LET r == idWrapper(gens[id])
       IN /\ gens' = IdStore(id, r)
          /\ gReturned' = [gReturned EXCEPT ![id] = Append(@, r.ret)]
    /\ UNCHANGED <<cache, mCalls, rLast, partial, pLast, lLast, polynom, yLast,
                 cLast>>

(***************************************************************************)
(* retry(func, attempts)                                                   *)
(***************************************************************************)

\* The behaviours of func: b[i] is what its i-th invocation does, return a
\* number or throw the error i.  f[i] = -1 stands for a throw.
BehaviourOf(f) ==
    [i \in 1..MaxFuncCalls |-> IF f[i] = -1 THEN Throws(i) ELSE Returns(f[i])]
FuncBehaviours == {BehaviourOf(f) : f \in [1..MaxFuncCalls -> Values \cup {-1}]}

\* How a call of retry ends: by return or throw of value, after `calls`
\* invocations of func, with the local variable count at `count`.
RetryEnd(outcome, value, calls, count) ==
    [outcome |-> outcome, value |-> value, calls |-> calls, count |-> count]

\* A slip that declares count outside retry, so that it keeps the value
\* the call before left in it.
retryCountKept(func, attempts) ==
    LET count == IF rLast.prev.has THEN rLast.prev.count ELSE 0
    IN IF func[1].ok
       THEN RetryEnd("return", FuncRef, 1, 1 + count)
       ELSE IF count = attempts
            THEN RetryEnd("return", Num(attempts), 1, count)
            ELSE IF func[2].ok
                 THEN RetryEnd("return", FuncRef, 2, 1 + count)
                 ELSE IF count = attempts
                      THEN RetryEnd("return", Num(attempts), 2, count)
                      ELSE IF func[3].ok
                           THEN RetryEnd("return", FuncRef, 3, 1 + count)
                           ELSE RetryEnd("throw", Err(func[3].v), 3, count)

\* retry(func, attempts): the try block, the catch (e) block with its inner
\* try, and the catch (e1) block.  count is incremented only after an
\* invocation that did not throw, so it is 0 in both catch blocks.
retry(func, attempts) ==
    LET count == 0
    IN IF func[1].ok
       THEN RetryEnd("return", FuncRef, 1, 1 + count)
       ELSE IF count = attempts
            THEN RetryEnd("return", Num(attempts), 1, count)
            ELSE IF func[2].ok
                 THEN RetryEnd("return", FuncRef, 2, 1 + count)
                 ELSE IF count = attempts
                      THEN RetryEnd("return", Num(attempts), 2, count)
                      ELSE IF func[3].ok
                           THEN RetryEnd("return", FuncRef, 3, 1 + count)
                           ELSE RetryEnd("throw", Err(func[3].v), 3, count)

\* No call of retry observed; prev holds the value of count at the end of
\* the call observed before, if any.
NoRetry == [called |-> FALSE, func |-> << >>, attempts |-> 0,
            res |-> RetryEnd("none", Num(0), 0, 0),
            prev |-> [has |-> FALSE, count |-> 0]]

\* One call retry(func, attempts), observed until the caller has taken its
\* result.
RetryCall(func, attempts) ==
    /\ ~rLast.called
    /\ rLast' = [called |-> TRUE, func |-> func, attempts |-> attempts,
                 res |-> retry(func, attempts), prev |-> rLast.prev]
    /\ UNCHANGED <<cache, mCalls, gens, gReturned, partial, pLast, lLast,
                   polynom, yLast, cLast>>

\* The caller has taken the result of the call: retry keeps nothing.
RetryDone ==
    /\ rLast.called
    /\ rLast' = [NoRetry EXCEPT
                    !.prev = [has |-> TRUE, count |-> rLast.res.count]]
    /\ UNCHANGED <<cache, mCalls, gens, gReturned, partial, pLast, lLast,
                   polynom, yLast, cLast>>

(***************************************************************************)
(* partialUsingArguments(fn, ...args1)                                     *)
(***************************************************************************)
PartialArgValues == {Str("a"), Str("b"), Num(1)}

\* The functions passed as fn: the docstring's concatenation of the
\* arguments, the number of arguments, and a function that throws.
UserFns == {"concat", "length", "throws"}

\* What fn does when it is invoked with the argument sequence args.
FnApply(fn, args) ==
    CASE fn = "concat" -> Returns(Str(Join(args, "")))
      [] fn = "length" -> Returns(Num(Len(args)))
      [] fn = "throws" -> Throws(Err(0))

NoPartial == [created |-> FALSE, fn |-> "concat", args1 |-> << >>]

\* partialUsingArguments(fn, ...args1) keeps fn and args1 in the closure.
partialUsingArguments(fn, args1) ==
    [created |-> TRUE, fn |-> fn, args1 |-> args1]

\* The closure f(...args): the template literal of the two joins.  fnArgs
\* lists the argument sequences with which the call invoked fn: f never
\* invokes it.
partialF(p, args) ==
    [outcome |-> "return",
     value |-> Str(Join(p.args1, "") \o Join(args, "")),
     fnArgs |-> << >>]

\* No call of f observed; prev is the call observed before, if any.
NoPartialCall == [called |-> FALSE, args |-> << >>,
                  res |-> [outcome |-> "none", value |-> Undefined,
                           fnArgs |-> << >>],
                  prev |-> [has |-> FALSE, args |-> << >>,
                            value |-> Undefined]]

PartialCreate(fn, args1) ==
    /\ ~partial.created
    /\ partial' = partialUsingArguments(fn, args1)
    /\ UNCHANGED <<cache, mCalls, gens, gReturned, rLast, pLast, lLast, polynom,
                   yLast, cLast>>

\* A slip that collects the call-time arguments in args1
\* (args1.push(...args) before the join).
PartialStorePush(p, args) == [p EXCEPT !.args1 = @ \o args]

\* The closure variables after a call f(...args): join only reads args1.
PartialStore(p, args) == p

PartialCall(args) ==
    /\ partial.created
    /\ ~pLast.called
    /\ pLast' = [called |-> TRUE, args |-> args,
                 res |-> partialF(partial, args), prev |-> pLast.prev]
    /\ partial' = PartialStore(partial, args)
    /\ UNCHANGED <<cache, mCalls, gens, gReturned, rLast, lLast, polynom,
                   yLast, cLast>>

\* The caller has taken the result of the call: f keeps nothing of it.
PartialDone ==
    /\ pLast.called
    /\ pLast' = [NoPartialCall EXCEPT
                    !.prev = [has |-> TRUE, args |-> pLast.args,
                              value |-> pLast.res.value]]
    /\ UNCHANGED <<cache, mCalls, gens, gReturned, rLast, partial, lLast,
                   polynom, yLast, cLast>>

(***************************************************************************)
(* logger(func, logFunc)                                                   *)
(***************************************************************************)
LogArgValues == {Num(1), Str("a"), Str("7"), Arr(<<Str("a"), Num(2)>>)}
FuncNames == {"cos", "testLogger"}

\* The events of one call of the wrapper, in order of occurrence:
\*   "log"        logFunc is called with the line `${text} ${word}`
\*   "invoke"     func is called with the arguments val (an array)
\*   "funcReturn" func returns val
\*   "return"     the wrapper returns val
\*   "throw"      the wrapper ends by throwing val
Ev(e, val, text, word) == [e |-> e, val |-> val, text |-> text, word |-> word]
LogEv(text, word) == Ev("log", Undefined, text, word)
ValEv(e, val) == Ev(e, val, "", "")

\* The error logFunc throws when it fails.
LogError == Err(-1)

\* func(...args1) and what follows it in the wrapper when func throws.
InvokeFunc(args1, r) ==
    IF r.ok
    THEN <<ValEv("invoke", Arr(args1)), ValEv("funcReturn", Num(r.v))>>
    ELSE <<ValEv("invoke", Arr(args1)), ValEv("throw", Err(r.v))>>

\* x[0].map(item => typeof item === 'string' ? `"${item}"` : item)
QuoteStrings(a) ==
    [i \in 1..Len(a) |-> IF a[i].type = "string"
                         THEN Str("\"" \o a[i].s \o "\"")
                         ELSE a[i]]

\* The branch args1.length === 1 of the wrapper: both lines are logged,
\* then func is called and its result returned.
wrapperOneArg(name, args1, r, logFails) ==
    LET text == name \o "(" \o ToStr(Arr(args1)) \o ")"
        starts == <<LogEv(text, "starts")>>
        ends == <<LogEv(text, "ends")>>
    IN IF logFails = 1 THEN starts \o <<ValEv("throw", LogError)>>
       ELSE IF logFails = 2
            THEN starts \o ends \o <<ValEv("throw", LogError)>>
            ELSE starts \o ends \o InvokeFunc(args1, r)
                 \o (IF r.ok THEN <<ValEv("return", Num(r.v))>> ELSE << >>)

\* The rest of the wrapper, for args1.length # 1: x is arr.slice(0, -1),
\* x[0].map throws a TypeError unless x[0] is an array; the 'starts' line
\* renders +last, the 'ends' line last; func is called between the two.
wrapperManyArgs(name, args1, r, logFails) ==
    LET arr == args1
        x == SubSeq(arr, 1, Len(arr) - 1)
    IN IF Len(x) = 0 \/ x[1].type # "array"
       THEN <<ValEv("throw", TypeError)>>
       ELSE LET xMap == QuoteStrings(x[1].a)
                last == arr[Len(arr)]
                head == name \o "([" \o ToStr(Arr(xMap)) \o "],"
                starts == <<LogEv(head \o ToStr(ToNumber(last)) \o ")", "starts")>>
                ends == <<LogEv(head \o ToStr(last) \o ")", "ends")>>
            IN IF logFails = 1 THEN starts \o <<ValEv("throw", LogError)>>
               ELSE IF ~r.ok THEN starts \o InvokeFunc(args1, r)
               ELSE IF logFails = 2
                    THEN starts \o InvokeFunc(args1, r) \o ends
                         \o <<ValEv("throw", LogError)>>
                    ELSE starts \o InvokeFunc(args1, r) \o ends
                         \o <<ValEv("return", Num(r.v))>>

\* The closure wrapper(...args1) of logger: name is func.name, r what func
\* does when it is called, logFails the call of logFunc that throws (0:
\* none).  Yields the events of the call.
wrapper(name, args1, r, logFails) ==
    IF Len(args1) = 1
    THEN wrapperOneArg(name, args1, r, logFails)
    ELSE wrapperManyArgs(name, args1, r, logFails)

NoLoggerCall == [called |-> FALSE, name |-> "", args |-> << >>,
                 r |-> NotInvoked, logFails |-> 0, trace |-> << >>]

\* One call of a wrapper made by logger(func, logFunc), observed until the
\* caller has taken its result.
LoggerCall(name, args1, r, logFails) ==
    /\ ~lLast.called
    /\ lLast' = [called |-> TRUE, name |-> name, args |-> args1, r |-> r,
                 logFails |-> logFails,
                 trace |-> wrapper(name, args1, r, logFails)]
    /\ UNCHANGED <<cache, mCalls, gens, gReturned, rLast, partial, pLast, polynom, yLast,
                 cLast>>

\* The caller has taken the result of the call: the wrapper keeps nothing.
LoggerDone ==
    /\ lLast.called
    /\ lLast' = NoLoggerCall
    /\ UNCHANGED <<cache, mCalls, gens, gReturned, rLast, partial, pLast, polynom, yLast,
                 cLast>>

(***************************************************************************)
(* getPolynom(...arg)                                                      *)
(***************************************************************************)
Coefs == -MaxCoef..MaxCoef

\* A slip that keeps the first three of more than three coefficients.
getPolynomTruncating(arg) ==
    IF Len(arg) = 0 THEN [called |-> TRUE, fn |-> FALSE, len |-> 0, arg |-> arg]
    ELSE IF Len(arg) > 3
         THEN [called |-> TRUE, fn |-> TRUE, len |-> 3, arg |-> SubSeq(arg, 1, 3)]
         ELSE [called |-> TRUE, fn |-> TRUE, len |-> Len(arg),
               arg |-> arg \o [i \in 1..(3 - Len(arg)) |-> 0]]

\* getPolynom(...arg): for 1, 2 or 3 coefficients the function f declared
\* in that branch (fn), which keeps arg - padded with 0 by the assignments
\* arg[1] = 0, arg[2] = 0 - and is told apart by len; else null (~fn).
getPolynom(arg) ==
    IF Len(arg) = 1
    THEN [called |-> TRUE, fn |-> TRUE, len |-> 1, arg |-> <<arg[1], 0, 0>>]
    ELSE IF Len(arg) = 2
         THEN [called |-> TRUE, fn |-> TRUE, len |-> 2,
               arg |-> <<arg[1], arg[2], 0>>]
         ELSE IF Len(arg) = 3
              THEN [called |-> TRUE, fn |-> TRUE, len |-> 3, arg |-> arg]
              ELSE [called |-> TRUE, fn |-> FALSE, len |-> Len(arg), arg |-> arg]

\* A slip in the quadratic: arg[0] * x in place of arg[0] * x * x.
polynomFLinearOnly(p, x) ==
    CASE p.len = 1 -> p.arg[1]
      [] p.len = 2 -> p.arg[1] * x + p.arg[2]
      [] p.len = 3 -> p.arg[1] * x + p.arg[2] * x + p.arg[3]

\* The function f returned by getPolynom, called with x: the f of the
\* branch that made it.  (In the third f, arg[0] === undefined does not
\* hold for an integer coefficient.)
polynomF(p, x) ==
    CASE p.len = 1 -> p.arg[1]
      [] p.len = 2 -> p.arg[1] * x + p.arg[2]
      [] p.len = 3 -> p.arg[1] * x * x + p.arg[2] * x + p.arg[3]

NoPolynom == [p |-> [called |-> FALSE, fn |-> FALSE, len |-> 0, arg |-> << >>],
              given |-> << >>, called |-> FALSE]
NoPolynomCall == [called |-> FALSE, x |-> 0, value |-> 0]

\* One call getPolynom(...arg); given |-> the coefficients as passed.
PolynomCreate(arg) ==
    /\ ~polynom.called
    /\ polynom' = [p |-> getPolynom(arg), given |-> arg, called |-> TRUE]
    /\ UNCHANGED <<cache, mCalls, gens, gReturned, rLast, partial, pLast,
                   lLast, yLast, cLast>>

\* One call f(x) of the function that getPolynom returned.
PolynomCall(x) ==
    /\ polynom.called
    /\ polynom.p.fn
    /\ ~yLast.called
    /\ yLast' = [called |-> TRUE, x |-> x, value |-> polynomF(polynom.p, x)]
    /\ UNCHANGED <<cache, mCalls, gens, gReturned, rLast, partial, pLast,
                   lLast, polynom, cLast>>

\* The caller has taken the result of the call: f keeps nothing of it.
PolynomDone ==
    /\ yLast.called
    /\ yLast' = NoPolynomCall
    /\ UNCHANGED <<cache, mCalls, gens, gReturned, rLast, partial, pLast,
                   lLast, polynom, cLast>>

(***************************************************************************)
(* getComposition(f, g)                                                    *)
(***************************************************************************)
\* What f does for each value g can return: return a value, or throw the
\* error 1 (g throws the error 0).
FTables == [Values -> {Returns(v) : v \in Values} \cup {Throws(1)}]

\* A slip that calls f although g threw, with undefined.
composeFooSwallow(x, gr, f) ==
    IF gr.ok
    THEN <<ValEv("invokeG", Num(x)), ValEv("gReturn", Num(gr.v)),
           ValEv("invokeF", Num(gr.v))>>
         \o (IF f[gr.v].ok
             THEN <<ValEv("fReturn", Num(f[gr.v].v)),
                    ValEv("return", Num(f[gr.v].v))>>
             ELSE <<ValEv("throw", Err(f[gr.v].v))>>)
    ELSE <<ValEv("invokeG", Num(x)), ValEv("invokeF", Undefined),
           ValEv("throw", Err(gr.v))>>

\* The closure foo(x) of getComposition: return f(g(x)).  gr is what g does
\* when called with x, f[v] what f does when called with v.  Yields the
\* events of the call: g is called first; if it throws, foo is left.
composeFoo(x, gr, f) ==
    IF gr.ok
    THEN <<ValEv("invokeG", Num(x)), ValEv("gReturn", Num(gr.v)),
           ValEv("invokeF", Num(gr.v))>>
         \o (IF f[gr.v].ok
             THEN <<ValEv("fReturn", Num(f[gr.v].v)),
                    ValEv("return", Num(f[gr.v].v))>>
             ELSE <<ValEv("throw", Err(f[gr.v].v))>>)
    ELSE <<ValEv("invokeG", Num(x)), ValEv("throw", Err(gr.v))>>

NoCompositionCall == [called |-> FALSE, x |-> 0, gr |-> NotInvoked,
                      f |-> << >>, trace |-> << >>]

\* One call getComposition(f, g)(x).
CompositionCall(x, gr, f) ==
    /\ ~cLast.called
    /\ cLast' = [called |-> TRUE, x |-> x, gr |-> gr, f |-> f,
                 trace |-> composeFoo(x, gr, f)]
    /\ UNCHANGED <<cache, mCalls, gens, gReturned, rLast, partial, pLast,
                   lLast, polynom, yLast>>

\* The caller has taken the result of the call: foo keeps nothing.
CompositionDone ==
    /\ cLast.called
    /\ cLast' = NoCompositionCall
    /\ UNCHANGED <<cache, mCalls, gens, gReturned, rLast, partial, pLast,
                   lLast, polynom, yLast>>

(***************************************************************************)
(* Specifications                                                          *)
(***************************************************************************)
Init ==
    /\ cache = [w \in Wrappers |-> NewMap]
    /\ mCalls = << >>
    /\ gens = [id \in Gens |-> NoGen]
    /\ gReturned = [id \in Gens |-> << >>]
    /\ rLast = NoRetry
    /\ partial = NoPartial
    /\ pLast = NoPartialCall
    /\ lLast = NoLoggerCall
    /\ polynom = NoPolynom
    /\ yLast = NoPolynomCall
    /\ cLast = NoCompositionCall

NextMemo == \E w \in Wrappers, x \in Keys, r \in FuncOutcomes : MemoCall(w, x, r)

SpecMemo == Init /\ [][NextMemo]_vars

NextIdGen ==
    \/ \E id \in Gens, s \in StartFroms : IdCreate(id, s)
    \/ \E id \in Gens : IdCall(id)

SpecIdGen == Init /\ [][NextIdGen]_vars

NextRetry ==
    \/ \E func \in FuncBehaviours, attempts \in 0..MaxAttempts :
          RetryCall(func, attempts)
    \/ RetryDone

SpecRetry == Init /\ [][NextRetry]_vars

NextPartial ==
    \/ \E fn \in UserFns, args1 \in SeqsUpTo(PartialArgValues, MaxPartialArgs) :
          PartialCreate(fn, args1)
    \/ \E args \in SeqsUpTo(PartialArgValues, MaxPartialArgs) : PartialCall(args)
    \/ PartialDone

SpecPartial == Init /\ [][NextPartial]_vars

NextLogger ==
    \/ \E name \in FuncNames, args1 \in SeqsUpTo(LogArgValues, MaxLogArgs),
          r \in FuncOutcomes, logFails \in 0..2 :
            LoggerCall(name, args1, r, logFails)
    \/ LoggerDone

SpecLogger == Init /\ [][NextLogger]_vars

NextPolynom ==
    \/ \E arg \in SeqsUpTo(Coefs, MaxCoefs) : PolynomCreate(arg)
    \/ \E x \in Coefs : PolynomCall(x)
    \/ PolynomDone

SpecPolynom == Init /\ [][NextPolynom]_vars

NextComposition ==
    \/ \E x \in Coefs, gr \in FuncOutcomes, f \in FTables :
          CompositionCall(x, gr, f)
    \/ CompositionDone

SpecComposition == Init /\ [][NextComposition]_vars

(***************************************************************************)
(* Properties of memoize                                                   *)
(***************************************************************************)
MemoIdx == 1..Len(mCalls)

\* The calls of wrapper w with key k, in order of occurrence.
CallsOf(w, k) == {i \in MemoIdx : mCalls[i].w = w /\ mCalls[i].x = k}

\* func never failed in a call of wrapper w.
NonFailing(w) == \A i \in MemoIdx : mCalls[i].w = w => mCalls[i].fr.ok \/ ~mCalls[i].invoked

FirstCallOf(w, k) == CHOOSE i \in CallsOf(w, k) : \A j \in CallsOf(w, k) : i <= j

\* C1: for a wrapper whose func never fails, func is invoked at most once
\* per distinct key, and every call with key k returns the value that the
\* first call with key k returned.
C1_MemoOncePerKey ==
    \A w \in Wrappers : NonFailing(w) =>
        \A k \in Keys :
            /\ Cardinality({i \in CallsOf(w, k) : mCalls[i].invoked}) <= 1
            /\ \A i \in CallsOf(w, k) :
                  /\ mCalls[i].outcome = "return"
                  /\ mCalls[i].value = mCalls[FirstCallOf(w, k)].value

\* A non-failing wrapper was called again with a key it had cached, and
\* with another key as well.
C1_Witness ==
    \E w \in Wrappers : \E k \in Keys :
        /\ NonFailing(w)
        /\ Cardinality(CallsOf(w, k)) >= 2
        /\ \E i \in CallsOf(w, k) : ~mCalls[i].invoked
        /\ \E k2 \in Keys \ {k} : CallsOf(w, k2) # {}

\* The step is a call of a wrapper.
MemoStep == Len(mCalls') = Len(mCalls) + 1

\* The most recent call of w with key k before this step threw.
LastCallThrew(w, k) ==
    /\ CallsOf(w, k) # {}
    /\ LET i == CHOOSE i \in CallsOf(w, k) : \A j \in CallsOf(w, k) : j <= i
       IN mCalls[i].outcome = "throw"

\* C10: when func fails in a call of wrapper w for key x, the wrapper throws
\* func's error, the cache of w holds no entry for x afterwards and all
\* caches are otherwise as before; and a call of w with x that follows a
\* failed call with x invokes func again.
C10_MemoFailureNotCached ==
    [][MemoStep =>
        LET c == mCalls'[Len(mCalls')]
        IN /\ (c.invoked /\ ~c.fr.ok) =>
                 /\ c.outcome = "throw"
                 /\ c.value = c.fr.v
                 /\ c.x \notin DOMAIN cache'[c.w]
                 /\ cache' = cache
           /\ LastCallThrew(c.w, c.x) => c.invoked]_vars

\* A call failed for a key while another key was cached, and the next call
\* with the failed key invoked func again and returned.
C10_Witness ==
    \E i \in MemoIdx : \E j \in MemoIdx :
        /\ i < j
        /\ mCalls[i].w = mCalls[j].w
        /\ mCalls[i].x = mCalls[j].x
        /\ mCalls[i].outcome = "throw"
        /\ mCalls[j].invoked
        /\ mCalls[j].outcome = "return"
        /\ DOMAIN cache[mCalls[i].w] \ {mCalls[i].x} # {}

\* C16: two wrappers made by separate calls of memoize share no cache
\* entries: a call to one wrapper leaves the other's cache unchanged, and
\* the first call of a wrapper with key x invokes func, also when the other
\* wrapper has cached x.
C16_MemoSeparateCaches ==
    [][MemoStep =>
        LET c == mCalls'[Len(mCalls')]
        IN /\ \A o \in Wrappers \ {c.w} : cache'[o] = cache[o]
           /\ CallsOf(c.w, c.x) = {} => c.invoked]_vars

\* Both wrappers have been called with the same key, each invoked func for
\* it, and they cached different values.
C16_Witness ==
    \E x \in Keys :
        /\ \A w \in Wrappers : x \in DOMAIN cache[w]
        /\ \E w \in Wrappers : \E o \in Wrappers \ {w} : cache[w][x] # cache[o][x]

(***************************************************************************)
(* Properties of getIdGeneratorFunction                                    *)
(***************************************************************************)
\* C8: the n-th call of a generator returns startFrom + (n - 1).
C8_IdSequence ==
    \A id \in Gens : \A n \in 1..Len(gReturned[id]) :
        gReturned[id][n] = gens[id].startFrom + (n - 1)

\* A generator with a non-zero startFrom has been called MaxGenCalls times.
C8_Witness ==
    \E id \in Gens :
        /\ gens[id].startFrom # 0
        /\ Len(gReturned[id]) = MaxGenCalls

\* The values n calls return on a generator that runs alone, from state g.
RECURSIVE SoloRun(_, _)
SoloRun(g, n) ==
    IF n = 0 THEN << >>
    ELSE LET r == idWrapper(g) IN <<r.ret>> \o SoloRun(r.gen, n - 1)

\* C9: a call to one generator leaves the other generator's count and flag
\* (and its returned sequence) unchanged, and each generator's returned
\* sequence is the one it returns when it runs alone.
C9_IdIndependent ==
    /\ [][\A id \in Gens : \A other \in Gens \ {id} :
            Len(gReturned'[id]) > Len(gReturned[id]) =>
                /\ gens'[other] = gens[other]
                /\ gReturned'[other] = gReturned[other]]_vars
    /\ [](\A id \in Gens : gens[id].created =>
            gReturned[id] = SoloRun(getIdGeneratorFunction(gens[id].startFrom),
                                    Len(gReturned[id])))

\* Both generators exist and each has been called at least twice.
C9_Witness ==
    /\ \A id \in Gens : gens[id].created /\ Len(gReturned[id]) >= 2
    /\ \E id \in Gens : \E other \in Gens \ {id} :
          gens[id].startFrom = gens[other].startFrom

(***************************************************************************)
(* Properties of retry                                                     *)
(***************************************************************************)
\* The invocations of func made by the last call of retry.
Made == 1..rLast.res.calls

\* C2: when an invocation of func made by retry completes without failing,
\* retry returns the value that this invocation returned, and func is not
\* invoked again after it.
C2_RetryReturnsResult ==
    rLast.called =>
        \A i \in Made : rLast.func[i].ok =>
            /\ rLast.res.outcome = "return"
            /\ rLast.res.value = Num(rLast.func[i].v)
            /\ rLast.res.calls = i

\* C3: if every invocation of func made by retry fails, retry fails with
\* the failure raised by the last invocation; it returns no normal value.
C3_RetryPropagatesLastFailure ==
    (rLast.called /\ \A i \in Made : ~rLast.func[i].ok) =>
        /\ rLast.res.outcome = "throw"
        /\ rLast.res.value = Err(rLast.func[rLast.res.calls].v)

\* func fails on its first k invocations and succeeds afterwards.
FailsFirst(func, k) == \A i \in DOMAIN func : func[i].ok <=> i > k

\* C4: for a func that fails on its first k invocations and succeeds
\* afterwards, and attempts >= k, retry ends successfully after exactly
\* k + 1 invocations of func.
C4_RetrySucceedsAfterK ==
    rLast.called =>
        \A k \in 0..(MaxFuncCalls - 1) :
            (FailsFirst(rLast.func, k) /\ rLast.attempts >= k) =>
                /\ rLast.res.outcome = "return"
                /\ rLast.res.calls = k + 1

\* C5: one call retry(func, attempts) invokes func at most attempts + 1
\* times.
C5_RetryAtMostAttemptsPlusOne ==
    rLast.called => rLast.res.calls <= rLast.attempts + 1

\* The value count had when the last call of retry began: count is
\* incremented once, right before `return func`.
StartCount ==
    rLast.res.count
    - (IF rLast.res.outcome = "return" /\ rLast.res.value = FuncRef
       THEN 1 ELSE 0)

C7_PartialInvokesFn ==
    pLast.called =>
        LET all == partial.args1 \o pLast.args
            o == FnApply(partial.fn, all)
        IN /\ pLast.res.fnArgs = <<all>>
           /\ o.ok => (pLast.res.outcome = "return" /\ pLast.res.value = o.v)

\* C17: the bound arguments of a completer are fixed at creation: no step
\* changes them once the completer exists, and a call with the same
\* restArgs as the call before it returns the same result, whatever was
\* called in between.
C17_PartialBoundFixed ==
    /\ [][partial.created => partial'.args1 = partial.args1]_vars
    /\ []((pLast.called /\ pLast.prev.has /\ pLast.prev.args = pLast.args) =>
            pLast.res.value = pLast.prev.value)

\* A completer with bound arguments was called twice with the same
\* non-empty restArgs.
C17_Witness ==
    /\ pLast.called
    /\ pLast.prev.has
    /\ pLast.prev.args = pLast.args
    /\ Len(pLast.args) > 0
    /\ Len(partial.args1) > 0

(***************************************************************************)
(* Properties of logger                                                    *)
(***************************************************************************)
\* The kinds of the events of the last wrapper call, in order.
TraceKinds == [i \in 1..Len(lLast.trace) |-> lLast.trace[i].e]

\* The wrapper got as far as its first line: it did not end at once with a
\* TypeError of its own.
LoggedFirst == Len(lLast.trace) > 0 /\ lLast.trace[1].e = "log"

\* C6: for every call of a logger wrapper with a non-failing func (and a
\* non-failing logFunc), whatever the number of arguments, the events are in
\* this order: the 'starts' line, func invoked and returned, the 'ends'
\* line, the wrapper returns func's result.  (Stated for the calls that
\* start logging.)
C6_LoggerOrder ==
    (lLast.called /\ lLast.r.ok /\ lLast.logFails = 0 /\ LoggedFirst) =>
        /\ TraceKinds = <<"log", "invoke", "funcReturn", "log", "return">>
        /\ lLast.trace[1].word = "starts"
        /\ lLast.trace[4].word = "ends"
        /\ lLast.trace[5].val = lLast.trace[3].val

\* The events of kind e in the last call of the logger wrapper.
LogEvents(e) == {i \in 1..Len(lLast.trace) : lLast.trace[i].e = e}

\* The lines logFunc received in the last call that end in word.
LogLines(word) == {i \in LogEvents("log") : lLast.trace[i].word = word}

\* C13: when func fails during a call of a logger wrapper, the wrapper
\* fails with that same failure, and logFunc has then received the 'starts'
\* line and no 'ends' line for this call.
C13_LoggerFuncFailure ==
    (lLast.called /\ LogEvents("invoke") # {} /\ ~lLast.r.ok) =>
        /\ lLast.trace[Len(lLast.trace)] = ValEv("throw", Err(lLast.r.v))
        /\ Cardinality(LogLines("starts")) = 1
        /\ LogLines("ends") = {}

\* C14: in every call of a logger wrapper that logs both lines, the
\* 'starts' line and the 'ends' line carry the same text and differ only
\* in the final word.
C14_LoggerSameText ==
    lLast.called =>
        \A i \in LogLines("starts") : \A j \in LogLines("ends") :
            lLast.trace[i].text = lLast.trace[j].text

\* C19: a logger wrapper raises no failure of its own: for every argument
\* list, if func and logFunc do not fail, the call emits the 'starts'
\* line, invokes func once, emits the 'ends' line and returns func's
\* result.
C19_LoggerNoOwnFailure ==
    (lLast.called /\ lLast.r.ok /\ lLast.logFails = 0) =>
        /\ LogEvents("throw") = {}
        /\ Cardinality(LogLines("starts")) = 1
        /\ Cardinality(LogEvents("invoke")) = 1
        /\ Cardinality(LogLines("ends")) = 1
        /\ lLast.trace[Len(lLast.trace)] = ValEv("return", Num(lLast.r.v))

(***************************************************************************)
(* Properties of getPolynom                                                *)
(***************************************************************************)
\* C11: getPolynom() returns null; with 1 to 3 integer coefficients the
\* result is a function, and getPolynom(a)(x) = a, getPolynom(a, b)(x) =
\* a*x + b, getPolynom(a, b, c)(x) = a*x*x + b*x + c.
C11_PolynomValues ==
    LET c == polynom.given
    IN /\ (polynom.called /\ Len(c) = 0) => ~polynom.p.fn
       /\ (polynom.called /\ Len(c) \in 1..3) => polynom.p.fn
       /\ (yLast.called /\ Len(c) = 1) => yLast.value = c[1]
       /\ (yLast.called /\ Len(c) = 2) => yLast.value = c[1] * yLast.x + c[2]
       /\ (yLast.called /\ Len(c) = 3) =>
             yLast.value = c[1] * yLast.x * yLast.x + c[2] * yLast.x + c[3]

\* A quadratic with a non-zero leading coefficient was evaluated at a
\* point other than 0, 1 and -1.
C11_Witness ==
    /\ yLast.called
    /\ Len(polynom.given) = 3
    /\ polynom.given[1] # 0
    /\ yLast.x = MaxCoef

\* C15 as claimed: getPolynom with more than three coefficients returns the
\* quadratic function of the first three.
C15_PolynomTruncates ==
    (polynom.called /\ Len(polynom.given) > 3) =>
        /\ polynom.p.fn
        /\ yLast.called =>
              yLast.value = polynom.given[1] * yLast.x * yLast.x
                            + polynom.given[2] * yLast.x + polynom.given[3]

\* C15 as amended: getPolynom with more than three coefficients does not
\* throw and produces no function: it returns null, as for no coefficient.
C15_PolynomNullBeyondThree ==
    (polynom.called /\ Len(polynom.given) > 3) => ~polynom.p.fn

\* getPolynom was called with four coefficients.
C15_Witness == polynom.called /\ Len(polynom.given) = 4

(***************************************************************************)
(* Properties of getComposition                                            *)
(***************************************************************************)
\* The events of kind e in the last call of the composition.
CompEvents(e) == {i \in 1..Len(cLast.trace) : cLast.trace[i].e = e}

\* C12: getComposition(f, g)(x) invokes g on x exactly once, then f exactly
\* once on g's result, and returns f's result; if g fails, f is not invoked
\* and g's failure reaches the caller unchanged.
C12_Composition ==
    cLast.called =>
        LET t == cLast.trace
        IN /\ CompEvents("invokeG") = {1}
           /\ t[1].val = Num(cLast.x)
           /\ cLast.gr.ok =>
                 /\ CompEvents("invokeF") = {3}
                 /\ t[3].val = Num(cLast.gr.v)
                 /\ cLast.f[cLast.gr.v].ok =>
                       /\ t[Len(t)].e = "return"
                       /\ t[Len(t)].val = Num(cLast.f[cLast.gr.v].v)
           /\ ~cLast.gr.ok =>
                 /\ CompEvents("invokeF") = {}
                 /\ t[Len(t)].e = "throw"
                 /\ t[Len(t)].val = Err(cLast.gr.v)

\* A call in which g returned and f returned another value than g did.
C12_Witness ==
    /\ cLast.called
    /\ cLast.gr.ok
    /\ cLast.f[cLast.gr.v].ok
    /\ cLast.f[cLast.gr.v].v # cLast.gr.v

=============================================================================
